---- MODULE Spec2Model ----
(***************************************************************************)
(* A model of src/src/lexer.rs: the Lexer buffer (contents + cursor), its  *)
(* extract operation, the Analyser operations implemented on it, the      *)
(* ScopedToken-to-Token bridge, and the tokenize_until_end driver running  *)
(* a caller-supplied Token implementation.                                 *)
(***************************************************************************)
EXTENDS Integers, Sequences, FiniteSets, TLC

\* ---------------------------------------------------------------- bounds
\* Longest sequence handed to Lexer::new.
MaxLen == 3
\* Largest usize value of the model: positions, range ends and the cursor
\* live in 0..MaxPos, and usize arithmetic wraps modulo MaxPos + 1.
MaxPos == 3
\* Most next_token calls one tokenize_until_end run makes in the model.
MaxCalls == 2
\* Most buffer operations one next_token call makes in the model.
MaxOps == 1

Elems == {"a", "b"}
Tokens == {"t1", "t2"}
Errors == {"e1", "e2"}
\* Values of a ScopedToken::Scope; ScopeDefault is Scope::default().
Scopes == {"default", "s1", "s2"}
ScopeDefault == "default"

Usize == 0..MaxPos
UsizeMod == MaxPos + 1

RECURSIVE SeqsUpTo(_)
SeqsUpTo(n) ==
    IF n = 0 THEN {<<>>}
    ELSE LET S == SeqsUpTo(n - 1)
         IN  S \cup {Append(s, e) : s \in {t \in S : Len(t) = n - 1}, e \in Elems}

Inputs == SeqsUpTo(MaxLen)

VARIABLES
    contents,   \* Lexer.contents: Vec<T>
    cursor,     \* Lexer.cursor: usize
    pc,         \* where the owner of the Lexer value is
    last,       \* the last buffer operation: its arguments, pre-state, outcome
    input,      \* the sequence Lexer::new was given
    fresh,      \* no operation has touched the Lexer since Lexer::new
    tokens,     \* tokenize_until_end: the local `tokens`
    result,     \* tokenize_until_end: the value returned
    produced,   \* the results of the next_token calls made, in call order
    endAtCall,  \* is_end() as evaluated before each next_token call
    startFresh, \* the Lexer was fresh when tokenize_until_end took it
    ops,        \* buffer operations made by the running next_token call
    posInRange, \* every set_pos(p) so far had p <= len(contents)
    scope,      \* the Scope the running (or last) scoped next_token call holds
    retained,   \* the Scope instance a caller keeps between its own calls
    call,       \* the latest scoped next_token call, and what its Scope was
    via,        \* the TokenType of the driver: a plain Token, or the bridge
    extentAtCall \* len(contents) - cursor when the running next_token call began

vars == <<contents, cursor, pc, last, input, fresh, tokens, result, produced,
          endAtCall, startFresh, ops, posInRange, scope, retained, call, via,
          extentAtCall>>

driverVars == <<tokens, result, produced, endAtCall, startFresh, extentAtCall>>

scopeVars == <<scope, retained, call, via>>

\* ------------------------------------------------------------ Lexer::new
\* Self { cursor: 0, contents: content.as_ref().to_vec() }
NewCursorOne(content) == [cursor |-> 1, contents |-> content]

New(content) == [cursor |-> 0, contents |-> [i \in 1..Len(content) |-> content[i]]]

\* -------------------------------------------------------------- Vec::drain
\* Vec::drain(range) checks the range against the length before it touches
\* the vector: it panics when start > end or end > len.
DrainPanics(start, end, len) == start > end \/ end > len

\* The elements the Drain iterator yields, collected: indices start..end
\* (0-based, end exclusive) in order.
DrainedReversed(c, start, end) == [i \in 1..(end - start) |-> c[end + 1 - i]]

Drained(c, start, end) == [i \in 1..(end - start) |-> c[start + i]]

\* What the vector holds once the Drain is dropped: the tail c[end..] moved
\* down to index start.
RemainingOneFewer(c, start, end) ==
    IF end > start
    THEN [i \in 1..(Len(c) - (end - start) + 1) |->
            IF i <= start THEN c[i] ELSE c[i + (end - start) - 1]]
    ELSE c

Remaining(c, start, end) ==
    [i \in 1..(Len(c) - (end - start)) |->
        IF i <= start THEN c[i] ELSE c[i + (end - start)]]

\* ----------------------------------------------------------- Lexer::extract
\* usize subtraction: the value modulo the width, and whether it underflowed
\* (a panic in a checked build, a wrap in an unchecked one).
SubUsize(a, b) == [val |-> (a - b) % UsizeMod, underflow |-> b > a]

\* Lines 31-35: the cursor after extract(start..end).
CursorAfterExtractInclusiveEnd(cur, start, end) ==
    IF start <= cur /\ cur <= end
    THEN [val |-> start, underflow |-> FALSE]
    ELSE IF end < cur THEN SubUsize(cur, end)
    ELSE [val |-> cur, underflow |-> FALSE]

CursorAfterExtractToEnd(cur, start, end) ==
    IF start <= cur /\ cur < end
    THEN [val |-> end, underflow |-> FALSE]
    ELSE IF end < cur THEN SubUsize(cur, end)
    ELSE [val |-> cur, underflow |-> FALSE]

CursorAfterExtractBySpan(cur, start, end) ==
    IF start <= cur /\ cur < end
    THEN [val |-> start, underflow |-> FALSE]
    ELSE IF end < cur THEN SubUsize(cur, end - start)
    ELSE [val |-> cur, underflow |-> FALSE]

CursorAfterExtractNoShift(cur, start, end) ==
    IF start <= cur /\ cur < end
    THEN [val |-> start, underflow |-> FALSE]
    ELSE [val |-> cur, underflow |-> FALSE]

CursorAfterExtract(cur, start, end) ==
    IF start <= cur /\ cur < end
    THEN [val |-> start, underflow |-> FALSE]
    ELSE IF end < cur THEN SubUsize(cur, end)
    ELSE [val |-> cur, underflow |-> FALSE]

\* Line 29 runs before lines 31-35: when the drain panics, the cursor has not
\* been adjusted yet.
CursorAtPanicAdjusted(cur, start, end) == CursorAfterExtract(cur, start, end).val

CursorAtPanic(cur, start, end) == cur

NoOp == [op |-> "new", start |-> 0, end |-> 0, pos |-> 0,
         preContents |-> <<>>, preCursor |-> 0, ret |-> <<>>,
         panicked |-> FALSE, underflow |-> FALSE]

\* No scoped call yet. kind: how the latest call got its Scope; seen: the
\* Scope value at its start; prev: the value the call before it left in its
\* Scope; left: the value the caller's previous call with the retained Scope
\* left there ("none" before the second such call); lastLeft: the same for
\* the latest such call; n: calls the caller made itself.
NoCall == [kind |-> "none", seen |-> "none", prev |-> "none", left |-> "none",
           lastLeft |-> "none", n |-> 0]

NoResult == [kind |-> "None", tokens |-> <<>>, err |-> "none"]

\* ---------------------------------------------------------------- is_end
\* Analyser::is_end, the end-of-input query of the buffer: the cursor is at
\* the end of contents.
IsEnd(cur, c) == cur = Len(c)

\* -------------------------------------------------------------------- Init
Init ==
    /\ \E content \in Inputs :
          /\ input = content
          /\ contents = New(content).contents
          /\ cursor = New(content).cursor
    /\ pc = "idle"
    /\ last = NoOp
    /\ fresh = TRUE
    /\ tokens = <<>>
    /\ result = NoResult
    /\ produced = <<>>
    /\ endAtCall = <<>>
    /\ startFresh = FALSE
    /\ ops = 0
    /\ posInRange = TRUE
    /\ scope = ScopeDefault
    /\ retained = ScopeDefault
    /\ call = NoCall
    /\ via = "plain"
    /\ extentAtCall = 0

\* The Lexer can be operated on: by its owner directly, or by the Token
\* implementation that holds &mut Lexer during a next_token call.
InCall == {"in_token", "in_scoped", "in_bridged"}

CanOperate ==
    \/ pc = "idle"
    \/ pc \in InCall /\ ops < MaxOps

\* Lexer::extract(start..end)
Extract(start, end) ==
    /\ CanOperate
    /\ fresh' = FALSE
    /\ ops' = IF pc \in InCall THEN ops + 1 ELSE ops
    /\ IF DrainPanics(start, end, Len(contents))
       THEN /\ pc' = "panicked"
            /\ last' = [NoOp EXCEPT !.op = "extract", !.start = start, !.end = end,
                                    !.preContents = contents, !.preCursor = cursor,
                                    !.panicked = TRUE]
            /\ cursor' = CursorAtPanic(cursor, start, end)
            /\ UNCHANGED contents
       ELSE LET adj == CursorAfterExtract(cursor, start, end)
            IN  /\ contents' = Remaining(contents, start, end)
                /\ cursor' = adj.val
                /\ last' = [NoOp EXCEPT !.op = "extract", !.start = start, !.end = end,
                                        !.preContents = contents, !.preCursor = cursor,
                                        !.ret = Drained(contents, start, end),
                                        !.underflow = adj.underflow]
                /\ pc' = pc
    /\ UNCHANGED <<input, posInRange, driverVars, scopeVars>>

\* Line 118, `self.cursor = position`: the cursor set_pos stores, whatever
\* the contents c are.
CursorAfterSetPosClamped(c, position) ==
    IF position > Len(c) THEN Len(c) ELSE position

CursorAfterSetPos(c, position) == position

\* Line 97, `&self.contents[..]`: the slice contents() returns.
ContentsViewFromCursor(c, cur) == SubSeq(c, cur + 1, Len(c))

ContentsView(c, cur) == SubSeq(c, 1, Len(c))

\* Line 103, `self.cursor`: the position pos() returns.
Pos(cur) == cur

\* Line 109, `self.contents`: the vector drain(self) hands out.
DrainResultFromCursor(c, cur) == SubSeq(c, cur + 1, Len(c))

DrainResult(c, cur) == c

\* Analyser::set_pos(position): Ok(self.cursor = position)
SetPos(position) ==
    /\ CanOperate
    /\ cursor' = CursorAfterSetPos(contents, position)
    /\ fresh' = FALSE
    /\ ops' = IF pc \in InCall THEN ops + 1 ELSE ops
    /\ last' = [NoOp EXCEPT !.op = "set_pos", !.pos = position,
                            !.preContents = contents, !.preCursor = cursor]
    /\ posInRange' = (posInRange /\ position <= Len(contents))
    /\ UNCHANGED <<contents, pc, input, driverVars, scopeVars>>

\* Analyser::contents(&self), called by the owner of the Lexer.
Contents ==
    /\ pc = "idle"
    /\ UNCHANGED ops
    /\ last' = [NoOp EXCEPT !.op = "contents",
                            !.preContents = contents, !.preCursor = cursor,
                            !.ret = ContentsView(contents, cursor)]
    /\ UNCHANGED <<contents, cursor, pc, input, fresh, posInRange, driverVars,
                   scopeVars>>

\* Analyser::pos(&self), called by the owner of the Lexer.
GetPos ==
    /\ pc = "idle"
    /\ UNCHANGED ops
    /\ last' = [NoOp EXCEPT !.op = "pos", !.pos = Pos(cursor),
                            !.preContents = contents, !.preCursor = cursor]
    /\ UNCHANGED <<contents, cursor, pc, input, fresh, posInRange, driverVars,
                   scopeVars>>

\* Analyser::drain(self): the owner gives the Lexer up; the value is moved,
\* so nothing can be called on it afterwards.
Drain ==
    /\ pc = "idle"
    /\ pc' = "drained"
    /\ last' = [NoOp EXCEPT !.op = "drain",
                            !.preContents = contents, !.preCursor = cursor,
                            !.ret = DrainResult(contents, cursor)]
    /\ UNCHANGED <<contents, cursor, input, fresh, ops, posInRange, driverVars,
                   scopeVars>>

\* ------------------------------------------------ Lexer::tokenize_until_end
\* Line 85, `while !self.is_end()`: whether the loop body runs once more.
LoopEntersDoWhile(cur, c, toks) == toks = <<>> \/ ~IsEnd(cur, c)

LoopEnters(cur, c, toks) == ~IsEnd(cur, c)

\* The `?` of line 86 converts the error with From::from; from
\* TokenType::Error to TokenType::Error that is the reflexive impl, which
\* returns its argument.
FromError(e) == e

\* Line 86, `tokens.push(TokenType::next_token(&mut self)?)`, applied to the
\* result r of the call: push on Ok, return Err(From::from(e)) on Err and
\* drop the local tokens.
DriverStepSkipsError(toks, r) ==
    IF r.kind = "Ok"
    THEN [pc |-> "loop", tokens |-> Append(toks, r.tok), result |-> NoResult]
    ELSE [pc |-> "loop", tokens |-> toks, result |-> NoResult]

DriverStepPushFront(toks, r) ==
    IF r.kind = "Ok"
    THEN [pc |-> "loop", tokens |-> <<r.tok>> \o toks, result |-> NoResult]
    ELSE [pc |-> "returned", tokens |-> <<>>,
          result |-> [kind |-> "Err", tokens |-> <<>>, err |-> FromError(r.err)]]

DriverStep(toks, r) ==
    IF r.kind = "Ok"
    THEN [pc |-> "loop", tokens |-> Append(toks, r.tok), result |-> NoResult]
    ELSE [pc |-> "returned", tokens |-> <<>>,
          result |-> [kind |-> "Err", tokens |-> <<>>, err |-> FromError(r.err)]]

\* What a next_token call can return: Ok(token) or Err(error).
TokenResults ==
    {[kind |-> "Ok", tok |-> t, err |-> "none"] : t \in Tokens}
        \cup {[kind |-> "Err", tok |-> "none", err |-> e] : e \in Errors}

\* ----------------------------------------- impl Token for Scoped (the bridge)
\* Line 76, `&mut Scoped::Scope::default()`: the Scope a bridged call hands to
\* ScopedToken::next_token, prev being what the call before left in its own.
BridgeScopeRetained(prev) == prev

BridgeScope(prev) == ScopeDefault

\* ScopedToken::next_token(lexer, scope) called by a caller with the Scope it
\* retains: line 64 takes `&mut Self::Scope`, the caller's instance itself.
PassScopeFresh(kept) == ScopeDefault

PassScope(kept) == kept

\* The record of a call that starts with Scope value s.
StartCall(kind, s) ==
    [call EXCEPT !.kind = kind, !.seen = s, !.prev = scope, !.left = call.lastLeft]

\* tokenize_until_end::<TokenType>(mut self) takes the Lexer; line 84,
\* `let mut tokens = vec![]`. tokenType is "plain" for a Token implemented
\* directly and "bridge" for a ScopedToken used through lines 67-78.
TokenizeUntilEndAs(tokenType) ==
    /\ pc = "idle"
    /\ pc' = "loop"
    /\ tokens' = <<>>
    /\ startFresh' = fresh
    /\ via' = tokenType
    /\ UNCHANGED <<contents, cursor, last, input, fresh, result, produced,
                   endAtCall, ops, posInRange, scope, retained, call, extentAtCall>>

TokenizeUntilEnd == TokenizeUntilEndAs("plain")

TokenizeUntilEndScoped == TokenizeUntilEndAs("bridge")

\* Line 85: the loop test; line 88, `Ok(tokens)`, when it fails. The run makes
\* at most cap calls.
LoopTestUpTo(cap) ==
    /\ pc = "loop"
    /\ IF LoopEnters(cursor, contents, tokens)
       THEN /\ Len(endAtCall) < cap
            /\ pc' = "in_token"
            /\ endAtCall' = Append(endAtCall, IsEnd(cursor, contents))
            /\ ops' = 0
            /\ scope' = IF via = "bridge" THEN BridgeScope(scope) ELSE scope
            /\ call' = IF via = "bridge"
                       THEN StartCall("bridged", BridgeScope(scope))
                       ELSE call
            /\ UNCHANGED <<tokens, result>>
       ELSE /\ pc' = "returned"
            /\ result' = [kind |-> "Ok", tokens |-> tokens, err |-> "none"]
            /\ tokens' = <<>>
            /\ UNCHANGED <<endAtCall, ops, scope, call>>
    /\ UNCHANGED <<contents, cursor, last, input, fresh, produced, startFresh,
                   posInRange, retained, via>>

LoopTest == LoopTestUpTo(MaxCalls) /\ UNCHANGED extentAtCall

\* TokenType::next_token(&mut self) returns r, and line 86 acts on it.
NextTokenReturn(r) ==
    /\ pc = "in_token"
    /\ LET step == DriverStep(tokens, r)
       IN  /\ pc' = step.pc
           /\ tokens' = step.tokens
           /\ result' = step.result
    /\ produced' = Append(produced, r)
    /\ UNCHANGED <<contents, cursor, last, input, fresh, endAtCall, startFresh, ops,
                   posInRange, scopeVars, extentAtCall>>

\* --------------------------------------------------- scoped calls by a caller
\* The caller calls <Scoped as ScopedToken>::next_token(&mut lexer, &mut kept)
\* with the Scope it retains.
ScopedCall ==
    /\ pc = "idle"
    /\ call.n < MaxCalls
    /\ pc' = "in_scoped"
    /\ ops' = 0
    /\ scope' = PassScope(retained)
    /\ call' = [StartCall("scoped", PassScope(retained)) EXCEPT !.n = call.n + 1]
    /\ UNCHANGED <<contents, cursor, last, input, fresh, posInRange, retained, via,
                   driverVars>>

\* The caller calls <Scoped as Token>::next_token(&mut lexer), lines 75-77.
BridgedCall ==
    /\ pc = "idle"
    /\ call.n < MaxCalls
    /\ pc' = "in_bridged"
    /\ ops' = 0
    /\ scope' = BridgeScope(scope)
    /\ call' = [StartCall("bridged", BridgeScope(scope)) EXCEPT !.n = call.n + 1]
    /\ UNCHANGED <<contents, cursor, last, input, fresh, posInRange, retained, via,
                   driverVars>>

\* The ScopedToken implementation writes v to the Scope it was given.
ScopeWrite(v) ==
    /\ \/ pc \in {"in_scoped", "in_bridged"}
       \/ pc = "in_token" /\ via = "bridge"
    /\ scope # v
    /\ scope' = v
    /\ UNCHANGED <<contents, cursor, pc, last, input, fresh, ops, posInRange,
                   retained, call, via, driverVars>>

\* The call made with the retained Scope returns: the writes went to the
\* caller's instance.
ScopedReturn ==
    /\ pc = "in_scoped"
    /\ pc' = "idle"
    /\ retained' = scope
    /\ call' = [call EXCEPT !.lastLeft = scope]
    /\ UNCHANGED <<contents, cursor, last, input, fresh, ops, posInRange, scope,
                   via, driverVars>>

\* The bridged call returns, line 77: its Scope is a temporary and is dropped.
BridgedReturn ==
    /\ pc = "in_bridged"
    /\ pc' = "idle"
    /\ UNCHANGED <<contents, cursor, last, input, fresh, ops, posInRange, scope,
                   retained, call, via, driverVars>>

Next ==
    \/ \E start \in Usize, end \in Usize : Extract(start, end)
    \/ \E position \in Usize : SetPos(position)
    \/ Contents
    \/ GetPos
    \/ Drain
    \/ TokenizeUntilEnd
    \/ LoopTest
    \/ \E r \in TokenResults : NextTokenReturn(r)

Spec == Init /\ [][Next]_vars

\* A caller of a ScopedToken type: its own calls with a retained Scope or
\* through the bridge, then the driver run with the bridge as TokenType. The
\* token implementation of this specification moves through the buffer with
\* set_pos, inside the calls.
\* The Scope of a call does not depend on the elements or on which token or
\* error comes back: one element value, one token and one error are enough.
InitScoped == Init /\ \A i \in 1..Len(input) : input[i] = CHOOSE e \in Elems : TRUE

ScopedResults ==
    {r \in TokenResults :
        r.tok \in {"none", CHOOSE t \in Tokens : TRUE}
          /\ r.err \in {"none", CHOOSE e \in Errors : TRUE}}

NextScoped ==
    \/ ScopedCall
    \/ BridgedCall
    \/ \E v \in Scopes : ScopeWrite(v)
    \/ ScopedReturn
    \/ BridgedReturn
    \/ \E position \in Usize : pc \in InCall /\ SetPos(position)
    \/ TokenizeUntilEndScoped
    \/ LoopTest
    \/ \E r \in ScopedResults : NextTokenReturn(r)

SpecScoped == InitScoped /\ [][NextScoped]_vars

\* ------------------------------------------ the driver under the progress rule
\* The unconsumed extent of the buffer.
Extent(cur, c) == Len(c) - cur

\* The extent lies in -MaxPos..MaxLen and every successful call lowers it, so
\* a run makes at most MaxLen + MaxPos successful calls and one failing one.
ProgressCap == MaxLen + MaxPos + 1

\* Line 85, with the extent noted for the call that starts.
ProgressLoopTest ==
    /\ LoopTestUpTo(ProgressCap)
    /\ extentAtCall' = Extent(cursor, contents)

\* A next_token that keeps the progress rule returns Ok only when the extent
\* is smaller than when it was called; it may return Err at any time.
ProgressReturn(r) ==
    /\ r.kind = "Ok" => Extent(cursor, contents) < extentAtCall
    /\ NextTokenReturn(r)

\* The caller places the cursor anywhere and starts the driver; the token
\* implementation works the buffer with set_pos and in-bounds extract calls.
NextProgress ==
    \/ \E position \in Usize : SetPos(position)
    \/ \E start \in Usize, end \in Usize :
          /\ pc = "in_token"
          /\ ~DrainPanics(start, end, Len(contents))
          /\ Extract(start, end)
    \/ TokenizeUntilEnd
    \/ ProgressLoopTest
    \/ \E r \in ScopedResults : ProgressReturn(r)

\* The driver is sequential code that runs on, and every next_token call
\* returns.
SpecProgress ==
    /\ InitScoped
    /\ [][NextProgress]_vars
    /\ WF_vars(ProgressLoopTest)
    /\ WF_vars(\E r \in ScopedResults : ProgressReturn(r))

\* ------------------------------------------------------------------ claims
\* The last buffer operation was an extract that returned (an in-bounds one).
Extracted == last.op = "extract" /\ ~last.panicked

\* C1: in every state reachable from Lexer::new by in-bounds extract calls and
\* set_pos calls, 0 <= cursor <= len(contents). The set_pos calls are taken
\* with p <= len(contents), the positions the invariant allows, which leaves
\* the bound to be kept by extract.
C1_CursorBound == posInRange => cursor >= 0 /\ cursor <= Len(contents)

\* C2: extract(start..end) returns c[start..end) in order and leaves
\* c[0..start) followed by c[end..len(c)); the length drops by end - start.
C2_ExtractRemovesRange ==
    Extracted =>
        LET c == last.preContents
        IN  /\ last.ret = SubSeq(c, last.start + 1, last.end)
            /\ contents = SubSeq(c, 1, last.start) \o SubSeq(c, last.end + 1, Len(c))
            /\ Len(contents) = Len(c) - (last.end - last.start)

C2_Witness ==
    /\ Extracted
    /\ 0 < last.start /\ last.start < last.end /\ last.end < Len(last.preContents)
    /\ last.preContents[1] # last.preContents[Len(last.preContents)]
    /\ last.ret # <<>>
    /\ Len(contents) = 2

\* C3: an in-bounds extract called with start <= cursor < end leaves the
\* cursor at start.
C3_CursorInsideGoesToStart ==
    Extracted /\ last.start <= last.preCursor /\ last.preCursor < last.end
        => cursor = last.start

C3_Witness ==
    /\ Extracted
    /\ 0 < last.start /\ last.start < last.preCursor /\ last.preCursor < last.end
    /\ cursor = last.start

\* C4: an in-bounds extract called with end < cursor leaves the cursor at
\* cursor_before - end, and the subtraction does not underflow.
C4_CursorAfterMinusEnd ==
    Extracted /\ last.end < last.preCursor
        => /\ cursor = last.preCursor - last.end
           /\ ~last.underflow
           /\ cursor >= 0

C4_Witness ==
    /\ Extracted
    /\ 0 < last.start /\ last.start < last.end /\ last.end < last.preCursor
    /\ cursor = last.preCursor - last.end
    /\ cursor # last.preCursor - (last.end - last.start)

\* C5, as stated: an in-bounds extract whose range lies fully before the
\* cursor (end <= cursor) leaves the cursor unchanged.
C5_Original ==
    Extracted /\ last.end <= last.preCursor => cursor = last.preCursor

\* C5, amended: with end <= cursor, the cursor is unchanged when end = cursor
\* or end = 0, and becomes cursor_before - end when 0 < end < cursor.
C5_CursorAfterRangeBefore ==
    Extracted /\ last.end <= last.preCursor
        => cursor = IF last.end = last.preCursor \/ last.end = 0
                    THEN last.preCursor
                    ELSE last.preCursor - last.end

C5_Witness ==
    /\ Extracted
    /\ last.start < last.end /\ last.end < last.preCursor
    /\ cursor = last.preCursor - last.end
    /\ cursor # last.preCursor

\* C6: an in-bounds extract called with cursor < start, or with cursor = end,
\* leaves the cursor unchanged.
C6_CursorBeforeOrAtEnd ==
    Extracted /\ (last.preCursor < last.start \/ last.preCursor = last.end)
        => cursor = last.preCursor

C6_Witness ==
    /\ Extracted
    /\ last.start < last.end /\ last.preCursor = last.end
    /\ cursor = last.preCursor

\* C7: extract(start..end) with start > end or end > len(contents) panics
\* instead of returning a sequence, with contents and cursor as they were.
C7_OutOfBoundsPanics ==
    last.op = "extract"
      /\ (last.start > last.end \/ last.end > Len(last.preContents))
        => /\ last.panicked
           /\ pc = "panicked"
           /\ last.ret = <<>>
           /\ contents = last.preContents
           /\ cursor = last.preCursor

C7_Witness ==
    /\ last.op = "extract" /\ last.panicked /\ pc = "panicked"
    /\ last.start <= last.end /\ last.end > Len(last.preContents)
    /\ last.start <= last.preCursor /\ last.preCursor < last.end
    /\ last.start # last.preCursor

\* C8: at the first next_token call that returns an error, tokenize_until_end
\* makes no further call, returns that error, and returns none of the tokens
\* produced before it.
C8_FailFast ==
    \A i \in 1..Len(produced) :
        produced[i].kind = "Err"
            => /\ i = Len(produced)
               /\ Len(endAtCall) = i
               /\ pc = "returned"
               /\ result = [kind |-> "Err", tokens |-> <<>>, err |-> produced[i].err]

C8_Witness ==
    /\ pc = "returned" /\ result.kind = "Err"
    /\ Len(produced) = 2
    /\ produced[1].kind = "Ok" /\ produced[2].kind = "Err"
    /\ result.err = produced[2].err

\* C9: when tokenize_until_end returns Ok(tokens), tokens holds one token per
\* next_token call made, in call order, is_end was false before each call,
\* and is_end is true at the return.
C9_OkCollectsAll ==
    pc = "returned" /\ result.kind = "Ok"
        => /\ Len(endAtCall) = Len(produced)
           /\ result.tokens = [i \in 1..Len(produced) |-> produced[i].tok]
           /\ \A i \in 1..Len(produced) : produced[i].kind = "Ok"
           /\ \A i \in 1..Len(endAtCall) : ~endAtCall[i]
           /\ IsEnd(cursor, contents)

C9_Witness ==
    /\ pc = "returned" /\ result.kind = "Ok"
    /\ Len(result.tokens) = 2 /\ result.tokens[1] # result.tokens[2]
    /\ Len(endAtCall) = 2

\* C10: tokenize_until_end on a Lexer just constructed from an empty sequence
\* makes no next_token call and returns Ok of the empty token sequence.
C10_EmptyInput ==
    input = <<>> /\ startFresh
        => /\ pc \in {"loop", "returned"}
           /\ endAtCall = <<>>
           /\ produced = <<>>
           /\ pc = "returned" => result = [kind |-> "Ok", tokens |-> <<>>, err |-> "none"]

C10_Witness ==
    /\ input = <<>> /\ startFresh
    /\ pc = "returned" /\ result.kind = "Ok" /\ result.tokens = <<>>
    /\ endAtCall = <<>>

\* C14: set_pos(p) succeeds for every p, also p > len(contents), sets the
\* cursor to p and leaves contents alone; pos() then returns p.
C14_SetPosStoresAny ==
    last.op = "set_pos"
        => /\ ~last.panicked /\ pc # "panicked"
           /\ cursor = last.pos
           /\ Pos(cursor) = last.pos
           /\ contents = last.preContents

C14_Witness ==
    /\ last.op = "set_pos"
    /\ last.pos > Len(contents) /\ contents # <<>>
    /\ cursor = last.pos /\ Pos(cursor) = last.pos

\* C15: after any extract and set_pos calls, drain() returns the whole
\* current contents in order, wherever the cursor is, and nothing is done
\* with the Lexer after it.
C15_DrainReturnsAll ==
    /\ last.op = "drain"
          => /\ pc = "drained"
             /\ last.ret = last.preContents
             /\ last.ret = contents
    /\ pc = "drained" => last.op = "drain"

C15_Witness ==
    /\ last.op = "drain" /\ pc = "drained"
    /\ last.preCursor > 0 /\ last.preCursor < Len(last.preContents)
    /\ Len(last.ret) = 2 /\ Len(input) = 3
    /\ last.ret[1] # last.ret[2]

\* C16: Lexer::new(s) has cursor 0 and contents s; contents() and pos() change
\* neither contents nor cursor, and contents() returns the whole sequence
\* whatever the cursor is.
C16_NewAndObservers ==
    /\ fresh => cursor = 0 /\ contents = input
    /\ last.op \in {"contents", "pos"}
          => contents = last.preContents /\ cursor = last.preCursor
    /\ last.op = "contents" => last.ret = contents
    /\ last.op = "pos" => last.pos = cursor

C16_Witness ==
    /\ last.op = "contents"
    /\ cursor > 0 /\ cursor < Len(contents)
    /\ last.ret = contents /\ Len(last.ret) = 3 /\ last.ret = input

\* C17: an in-bounds extract called with cursor <= len(contents), and not with
\* cursor = end on a non-empty range, leaves cursor <= len(contents).
C17_ExtractKeepsBoundUnlessAtEnd ==
    Extracted
      /\ last.preCursor <= Len(last.preContents)
      /\ ~(last.preCursor = last.end /\ last.start < last.end)
        => cursor <= Len(contents)

\* The excluded case does push the cursor past the end.
C17_Witness ==
    /\ Extracted
    /\ last.preCursor <= Len(last.preContents)
    /\ last.preCursor = last.end /\ last.start < last.end
    /\ cursor > Len(contents)

\* C18: an in-bounds extract called with end < cursor <= len(contents) leaves
\* len - cursor larger by start: the elements from the cursor on are the old
\* ones exactly when start = 0, and otherwise the old ones preceded by start
\* elements that were before the cursor.
C18_UnconsumedGrowsByStart ==
    Extracted /\ last.end < last.preCursor /\ last.preCursor <= Len(last.preContents)
        => LET old == SubSeq(last.preContents, last.preCursor + 1, Len(last.preContents))
               new == SubSeq(contents, cursor + 1, Len(contents))
           IN  /\ Len(contents) - cursor
                    = (Len(last.preContents) - last.preCursor) + last.start
               /\ Len(new) = Len(old) + last.start
               /\ SubSeq(new, last.start + 1, Len(new)) = old
               /\ (new = old) <=> (last.start = 0)

C18_Witness ==
    /\ Extracted
    /\ 0 < last.start /\ last.start < last.end
    /\ last.end < last.preCursor /\ last.preCursor <= Len(last.preContents)
    /\ Len(contents) - cursor = (Len(last.preContents) - last.preCursor) + last.start

\* C19: extract(k..k) with k <= len(contents) returns nothing and leaves
\* contents alone; the cursor stays exactly when k = 0 or k >= cursor, and
\* becomes cursor - k when 0 < k < cursor.
C19_EmptyRangeExtract ==
    Extracted /\ last.start = last.end
        => /\ last.ret = <<>>
           /\ contents = last.preContents
           /\ (cursor = last.preCursor) <=> (last.start = 0 \/ last.start >= last.preCursor)
           /\ 0 < last.start /\ last.start < last.preCursor
                 => cursor = last.preCursor - last.start

C19_Witness ==
    /\ Extracted /\ last.start = last.end
    /\ 0 < last.start /\ last.start < last.preCursor
    /\ cursor = last.preCursor - last.start
    /\ contents = last.preContents /\ contents # <<>>

\* C12: every Token::next_token call made through the bridge, those of
\* tokenize_until_end included, starts with the default Scope, whatever the
\* calls before it left in theirs.
C12_BridgedScopeIsDefault ==
    call.kind = "bridged" => call.seen = ScopeDefault

C12_Witness ==
    /\ call.kind = "bridged" /\ call.seen = ScopeDefault
    /\ call.prev \in Scopes \ {ScopeDefault}
    /\ pc = "in_token" /\ Len(endAtCall) = 2

\* C13: the second of two ScopedToken::next_token calls made with the same
\* retained Scope starts with the value the first one left in it.
C13_RetainedScopeContinues ==
    call.kind = "scoped" /\ call.left # "none" => call.seen = call.left

C13_Witness ==
    /\ call.kind = "scoped" /\ pc = "in_scoped"
    /\ call.left \in Scopes \ {ScopeDefault}
    /\ call.seen = call.left

\* C11: when every successful next_token call leaves len(contents) - cursor
\* smaller than it found it, tokenize_until_end returns, Ok or Err, from every
\* buffer it is started on.
C11_DriverTerminates == (pc \in {"loop", "in_token"}) ~> (pc = "returned")

C11_Witness ==
    /\ pc = "returned" /\ result.kind = "Ok"
    /\ Len(result.tokens) > MaxCalls
    /\ last.op = "extract"

====
